---- MODULE Spec2Model ----
\* Message dispatch core of hugot (src/mux.go): the Mux (Dispatcher) with its
\* registries and reader/writer lock, and the CommandMux (Command Tree).
EXTENDS Integers, Sequences, FiniteSets, TLC

VARIABLES
  rhndlrs,    \* Mux.rhndlrs: the raw handlers, in registration order
  bghndlrs,   \* Mux.bghndlrs: the background handlers, in registration order
  hears,      \* Mux.hears: pattern object -> handlers registered under it
  hndlrs,     \* Mux.hndlrs: every handler registered through Add
  httpm,      \* Mux.httpm: handler name (path /<mux>/<name>) -> handler
  nodes,      \* the CommandMux objects; nodes[cmds] is Mux.cmds
  wmutex,     \* RWMutex: the caller that owns the writer side, 0 if none
  readers,    \* RWMutex: the callers that hold the read lock
  blocked,    \* RWMutex: the callers whose RLock waits for the writer
  pc,         \* each caller's position
  call,       \* each caller's call frame
  bgstarted   \* how many tasks were started for each background handler

vars == <<rhndlrs, bghndlrs, hears, hndlrs, httpm, nodes, wmutex, readers,
          blocked, pc, call, bgstarted>>

regs == <<rhndlrs, bghndlrs, hears, hndlrs, httpm, nodes>>

\* ---------------------------------------------------------------- bounds

MaxRegs == 2
MaxArgs == 1
MaxStart == 2
MaxDepth == 3

\* ------------------------------------------------------------- universes

\* Error values of the command path.
Nil == "nil"
ErrNextCommand == "ErrNextCommand"
ErrSkipHears == "ErrSkipHears"
ErrUnknownCommand == "ErrUnknownCommand"
ErrMissing == "missing sub-command"
ErrOther == "handler error"

\* What a command handler may return.
CmdResults == {Nil, ErrNextCommand, ErrSkipHears, ErrUnknownCommand, ErrOther}

\* Handler objects. NoHandler is the nil interface value.
NoHandler == "none"
Handlers ==
  {"help", "ca", "cb", "r1", "h1", "h2", "bg1", "web", "multi", "full", "dud"}

\* The capabilities (interfaces) a handler object implements.
Caps(h) ==
  CASE h = "help"  -> {"cmd"}
    [] h = "ca"    -> {"cmd"}
    [] h = "cb"    -> {"cmd"}
    [] h = "r1"    -> {"raw"}
    [] h = "h1"    -> {"hears"}
    [] h = "h2"    -> {"hears"}
    [] h = "bg1"   -> {"bg"}
    [] h = "web"   -> {"http"}
    [] h = "multi" -> {"raw", "hears"}
    [] h = "full"  -> {"raw", "bg", "cmd", "hears", "http"}
    [] OTHER       -> {}

\* Describe(): the handler's self-reported name.
Name(h) ==
  CASE h = "help" -> "help"
    [] h = "ca"   -> "a"
    [] h = "cb"   -> "b"
    [] h = "web"  -> "status"
    [] OTHER      -> h

Names == {Name(h) : h \in Handlers}

\* Hears(): the handler's pattern object.
Patterns == {"px", "pany"}
Texts == {"x", "y"}
Pattern(h) == IF h = "h1" THEN "px" ELSE "pany"

\* A pattern is modelled by the texts it matches.
Matches(r, text) == IF r = "px" THEN text = "x" ELSE TRUE

Tokens == {"a", "b", "c"}

ArgLists == UNION {[1..n -> Tokens] : n \in 0..MaxArgs}

Messages == [Text : Texts, ToBot : BOOLEAN, args : ArgLists]

\* What a handler may do to the message it is given.
Muts == {"none", "text", "args"}

Mutate(m, mu) ==
  CASE mu = "text" -> [m EXCEPT !.Text = IF m.Text = "x" THEN "y" ELSE "x"]
    [] mu = "args" -> [m EXCEPT !.args = IF m.args = <<>> THEN <<>> ELSE Tail(m.args)]
    [] OTHER       -> m

\* ------------------------------------------------------------ Command Tree

\* Mux.cmds, the root of the command tree.
cmds == 1

\* NewCommandMux(base): a node with no sub-commands. subCmds maps a name to a
\* node, 0 where the Go map has no entry.
NewCommandMux(base) == [base |-> base, subCmds |-> [n \in Names |-> 0]]

\* subs[key] with its ok flag: 0 when the key is absent.
Lookup(subs, key) == IF key \in DOMAIN subs THEN subs[key] ELSE 0

\* c.Describe() for the argument of AddCommandHandler: c is a plain handler
\* (c.n = 0) or a CommandMux (node c.n), whose Describe is its base handler's.
Describe(ns, c) == IF c.n # 0 THEN Name(ns[c.n].base) ELSE Name(c.h)

\* A CommandMux with no base handler has no Describe: the call panics.
Describable(ns, c) == IF c.n = 0 THEN TRUE ELSE ns[c.n].base # NoHandler

\* CommandMux.AddCommandHandler(c) on node cx: the heap afterwards and the
\* returned *CommandMux (0 is nil).
CxAddCommandHandler(ns, cx, c) ==
  LET n == Describe(ns, c)
      new == Len(ns) + 1
  IN  IF c.n # 0
        THEN [nodes |-> [ns EXCEPT ![cx].subCmds[n] = c.n], ret |-> 0]
        ELSE [nodes |-> [Append(ns, NewCommandMux(c.h)) EXCEPT ![cx].subCmds[n] = new],
              ret |-> new]

\* A Command that ignores what the base handler returned and always routes
\* on args[0].
CommandAtNoBase(ns, cx, baseErr, m) ==
  IF Len(m.args) = 0 THEN [next |-> 0, err |-> ErrMissing]
  ELSE IF Lookup(ns[cx].subCmds, m.args[1]) # 0
    THEN [next |-> Lookup(ns[cx].subCmds, m.args[1]), err |-> Nil]
    ELSE [next |-> 0, err |-> ErrUnknownCommand]

\* One level of CommandMux.Command at node cx, given what the base handler
\* returned (ErrNextCommand when there is none) and the message after it ran:
\* either the final error, or the child whose Command runs next.
CommandAt(ns, cx, baseErr, m) ==
  IF baseErr # ErrNextCommand THEN [next |-> 0, err |-> baseErr]
  ELSE IF Len(m.args) = 0 THEN [next |-> 0, err |-> ErrMissing]
  ELSE IF Lookup(ns[cx].subCmds, m.args[1]) # 0
    THEN [next |-> Lookup(ns[cx].subCmds, m.args[1]), err |-> Nil]
    ELSE [next |-> 0, err |-> ErrUnknownCommand]

\* What the base handler of a node may return and do: a node without one
\* behaves as ErrNextCommand.
BaseResults(base, Rs) == IF base = NoHandler THEN {ErrNextCommand} ELSE Rs
BaseMuts(base, Ms) == IF base = NoHandler THEN {"none"} ELSE Ms

\* ----------------------------------------------------------------- frames

NoMsg == [Text |-> "x", ToBot |-> FALSE, args |-> <<>>]

\* The registries as a call finds them when it is made.
Registries ==
  [raw |-> rhndlrs, bg |-> bghndlrs, hears |-> hears, nodes |-> nodes,
   http |-> httpm, all |-> hndlrs]

NoRegistries ==
  [raw |-> <<>>, bg |-> <<>>, hears |-> [r \in Patterns |-> <<>>], nodes |-> <<>>,
   http |-> [n \in Names |-> NoHandler], all |-> <<>>]

\* What the frame of a call records of them: all, where the call is followed
\* (G), or nothing.
Found(G) == IF G THEN Registries ELSE NoRegistries

NoCall ==
  [op |-> "none", h |-> NoHandler, cn |-> 0, cx |-> 0, stage |-> "none",
   used |-> FALSE, orig |-> NoMsg, m |-> NoMsg, dm |-> NoMsg, err |-> Nil,
   cmdRes |-> "none", node |-> 0, cmdLog |-> <<>>, hq |-> <<>>,
   hearLog |-> <<>>, tasks |-> <<>>, w |-> <<>>, ret |-> "none", sub |-> 0,
   beg |-> NoRegistries]

\* The frame a call leaves when it returns: its record, where the caller
\* keeps it (K), or nothing.
Left(f, K) == IF K THEN f ELSE NoCall

\* The caller p is between calls.
Ready(p) == pc[p] = "idle" /\ call[p].op = "none"

\* The caller p has taken the result of its last call and is free to make
\* the next one.
Forget(p) ==
  /\ pc[p] = "idle" /\ call[p].op # "none"
  /\ call' = [call EXCEPT ![p] = NoCall]
  /\ UNCHANGED <<rhndlrs, bghndlrs, hears, hndlrs, httpm, nodes, wmutex, readers,
                 blocked, pc, bgstarted>>

\* ------------------------------------------------------------------- lock

\* mx.RLock(): taken at once unless a writer owns or awaits the lock.
RLock(p, in) ==
  /\ wmutex' = wmutex
  /\ IF wmutex = 0
       THEN readers' = readers \cup {p} /\ blocked' = blocked /\ pc' = [pc EXCEPT ![p] = in]
       ELSE readers' = readers /\ blocked' = blocked \cup {p}
            /\ pc' = [pc EXCEPT ![p] = "r_wait"]

\* A return that leaves the read lock held.
RUnlockMissing(p) == readers' = readers /\ wmutex' = wmutex /\ blocked' = blocked

\* mx.RUnlock().
RUnlock(p) == readers' = readers \ {p} /\ wmutex' = wmutex /\ blocked' = blocked

\* mx.Lock(), first half: own the writer side, which turns new readers away.
Lock(p) ==
  /\ readers' = readers /\ blocked' = blocked
  /\ IF wmutex = 0
       THEN wmutex' = p /\ pc' = [pc EXCEPT ![p] = "w_wait"]
       ELSE wmutex' = wmutex /\ pc' = [pc EXCEPT ![p] = "w_lock"]

\* A Lock() that does not wait for the readers to leave.
LockedNoWait(p) == wmutex = p

\* mx.Lock(), second half: the writer enters once the readers have left.
Locked(p) == wmutex = p /\ readers = {}

\* mx.Unlock(): the readers that waited enter together.
Unlock(p, then) ==
  /\ wmutex' = 0
  /\ readers' = blocked
  /\ blocked' = {}
  /\ pc' = [q \in DOMAIN pc |->
              IF q = p THEN then ELSE IF q \in blocked THEN "r_in" ELSE pc[q]]

\* ----------------------------------------------------------------- Handle

\* A Handle that gives its raw or hears handlers the caller's message.
RawRefAlias == "m"
HearsRefAlias == "m"

\* Which message a handler invocation of Handle is given: "m" is the caller's
\* message itself, "mc" a copy made for the invocation.
RawRef == "mc"
CmdRef == "m"
HearsRef == "mc"

\* The caller's message after a handler that was given `ref` left its
\* message as `written`.
WriteBack(ref, m, written) == IF ref = "m" THEN written ELSE m

\* The orders in which `for _, hhs := range mx.hears` may visit the patterns.
RECURSIVE Orders(_)
Orders(S) ==
  IF S = {} THEN {<<>>}
  ELSE UNION {{<<r>> \o o : o \in Orders(S \ {r})} : r \in S}

RECURSIVE Flatten(_, _)
Flatten(hs, order) ==
  IF order = <<>> THEN <<>> ELSE hs[Head(order)] \o Flatten(hs, Tail(order))

\* The hears handlers in an order the two loops of Handle may try them.
HearsQueues == {Flatten(hears, o) : o \in Orders({r \in Patterns : hears[r] # <<>>})}

\* A raw loop that is skipped for the messages sent to the bot.
RawTasksNotToBot(m) ==
  IF m.ToBot THEN <<>>
  ELSE [i \in 1..Len(rhndlrs) |-> [h |-> rhndlrs[i], seen |-> m, mc |-> m, ran |-> FALSE]]

\* One task per raw handler, each with its own copy of the message.
RawTasks(m) ==
  [i \in 1..Len(rhndlrs) |-> [h |-> rhndlrs[i], seen |-> m, mc |-> m, ran |-> FALSE]]

\* Variants of the decisions of Handle: commands run for every message, the
\* skip-hears sentinel is not honoured, a handled message keeps its error,
\* the error is returned to the caller.
RunsCommandsAlways(m) == TRUE
SkipsHearsNever(err) == FALSE
AfterHearsKeep(err, handled) == err
HandleResultErr(err) == err

\* `if m.ToBot`: whether Handle runs the command tree.
RunsCommands(m) == m.ToBot

\* `if err == ErrSkipHears { return nil }`.
SkipsHears(err) == err = ErrSkipHears

\* The err of Handle after a hears handler reported `handled`.
AfterHears(err, handled) == IF handled THEN Nil ELSE err

\* What Handle writes to the ResponseWriter at its end.
ErrorLines(err) == IF err # Nil THEN << <<"error", err>> >> ELSE <<>>

\* What Handle returns.
HandleResult(err) == Nil

\* mx.Handle(ctx, w, m) is called: RLock.
HandleCall(p, m, G) ==
  /\ Ready(p)
  /\ call' = [call EXCEPT ![p] = [NoCall EXCEPT !.op = "Handle", !.orig = m, !.m = m,
                                                !.beg = Found(G)]]
  /\ RLock(p, "r_in")
  /\ UNCHANGED <<regs, bgstarted>>

\* Handle returns: the deferred RUnlock.
HandleReturn(p, f, K) ==
  /\ call' = [call EXCEPT ![p] = Left([f EXCEPT !.ret = HandleResult(f.err)], K)]
  /\ pc' = [pc EXCEPT ![p] = "idle"]
  /\ RUnlock(p)

\* The raw loop, then `if m.ToBot`.
HandleRaw(p) ==
  /\ pc[p] = "r_in" /\ call[p].op = "Handle"
  /\ LET f == [call[p] EXCEPT !.tasks = RawTasks(call[p].m)]
     IN  IF RunsCommands(f.m)
           THEN /\ call' = [call EXCEPT ![p] = [f EXCEPT !.node = cmds, !.dm = f.m]]
                /\ pc' = [pc EXCEPT ![p] = "h_cmd"]
           ELSE /\ \E q \in HearsQueues : call' = [call EXCEPT ![p] = [f EXCEPT !.hq = q]]
                /\ pc' = [pc EXCEPT ![p] = "h_hears"]
  /\ UNCHANGED <<regs, wmutex, readers, blocked, bgstarted>>

\* cx.Command(ctx, w, m) called by a client on a node it holds: no lock.
CommandCall(p, cx, m) ==
  /\ Ready(p) /\ cx \in 2..Len(nodes)
  /\ call' = [call EXCEPT ![p] = [NoCall EXCEPT !.op = "Command", !.orig = m, !.m = m,
                                                !.dm = m, !.node = cx]]
  /\ pc' = [pc EXCEPT ![p] = "h_cmd"]
  /\ UNCHANGED <<regs, wmutex, readers, blocked, bgstarted>>

\* One level of CommandMux.Command per step, for the dispatch Handle started
\* with RunCommandHandler(ctx, mx.cmds, w, m) or a client started at a node:
\* the base handler of the node returns r in Rs and changes the message by
\* mu in Ms.
CommandStep(p, Rs, Ms, K) ==
  /\ pc[p] = "h_cmd" /\ Len(call[p].cmdLog) < MaxDepth
  /\ LET f == call[p]
         cx == f.node
         base == nodes[cx].base
     IN  \E r \in BaseResults(base, Rs), mu \in BaseMuts(base, Ms) :
           LET dm == Mutate(f.dm, mu)
               out == CommandAt(nodes, cx, r, dm)
               g == [f EXCEPT !.dm = dm, !.m = WriteBack(CmdRef, f.m, dm),
                              !.cmdLog = Append(f.cmdLog,
                                 [node |-> cx, base |-> base, res |-> r,
                                  seen |-> f.dm, after |-> dm])]
               e == [g EXCEPT !.err = out.err, !.cmdRes = out.err, !.node = 0]
           IN  IF out.next # 0
                 THEN /\ call' = [call EXCEPT ![p] = [g EXCEPT !.node = out.next]]
                      /\ UNCHANGED <<pc, wmutex, readers, blocked>>
               ELSE IF f.op = "Command"
                 THEN /\ call' = [call EXCEPT ![p] = Left([e EXCEPT !.ret = out.err], K)]
                      /\ pc' = [pc EXCEPT ![p] = "idle"]
                      /\ UNCHANGED <<wmutex, readers, blocked>>
               ELSE IF SkipsHears(out.err)
                 THEN HandleReturn(p, e, K)
                 ELSE /\ \E q \in HearsQueues :
                           call' = [call EXCEPT ![p] = [e EXCEPT !.hq = q]]
                      /\ pc' = [pc EXCEPT ![p] = "h_hears"]
                      /\ UNCHANGED <<wmutex, readers, blocked>>
  /\ UNCHANGED <<regs, bgstarted>>

\* One turn of the hears loops: RunHearsHandler(ctx, hh, w, &mc) on a copy.
HandleHears(p, Ms) ==
  /\ pc[p] = "h_hears" /\ call[p].hq # <<>>
  /\ LET f == call[p]
         hh == Head(f.hq)
         mc == f.m
     IN  IF Matches(Pattern(hh), mc.Text)
           THEN \E handled \in BOOLEAN, mu \in Ms :
                  call' = [call EXCEPT ![p] =
                    [f EXCEPT !.hq = Tail(f.hq),
                              !.m = WriteBack(HearsRef, f.m, Mutate(mc, mu)),
                              !.err = AfterHears(f.err, handled),
                              !.hearLog = Append(f.hearLog,
                                 [h |-> hh, seen |-> mc, handled |-> handled, mu |-> mu])]]
           ELSE call' = [call EXCEPT ![p] = [f EXCEPT !.hq = Tail(f.hq)]]
  /\ UNCHANGED <<regs, pc, wmutex, readers, blocked, bgstarted>>

\* After the hears loops: the error line, `return nil`.
HandleFinish(p, K) ==
  /\ pc[p] = "h_hears" /\ call[p].hq = <<>>
  /\ HandleReturn(p, [call[p] EXCEPT !.w = call[p].w \o ErrorLines(call[p].err)], K)
  /\ UNCHANGED <<regs, bgstarted>>

\* A raw handler's task runs, some time after `go rh.Handle(ctx, w, &mc)`.
RawRun(p, Ms) ==
  /\ call[p].op = "Handle"
  /\ \E i \in 1..Len(call[p].tasks), mu \in Ms :
       /\ ~call[p].tasks[i].ran
       /\ LET mc == Mutate(call[p].tasks[i].mc, mu)
          IN  call' = [call EXCEPT ![p].tasks[i] = [@ EXCEPT !.ran = TRUE, !.mc = mc],
                                   ![p].m = WriteBack(RawRef, @, mc)]
  /\ UNCHANGED <<regs, pc, wmutex, readers, blocked, bgstarted>>

\* ----------------------------------------------------------- registration

RECURSIVE SumLen(_, _)
SumLen(hs, S) ==
  IF S = {} THEN 0
  ELSE LET r == CHOOSE x \in S : TRUE IN Len(hs[r]) + SumLen(hs, S \ {r})

\* How much has been registered: what the guards of the calls bound.
RegSize ==
  Len(rhndlrs) + Len(bghndlrs) + Len(hndlrs) + SumLen(hears, Patterns)
    + (Len(nodes) - 2) + Cardinality({n \in Names : httpm[n] # NoHandler})

RegOps == {"AddRaw", "AddBg", "AddHears", "AddCmd", "AddHTTP", "Add", "CxAdd"}

Pending == Cardinality({q \in DOMAIN pc : pc[q] # "idle" /\ call[q].op \in RegOps})

Room == RegSize + Pending < MaxRegs

\* The argument of AddCommandHandler: a plain handler, or the CommandMux n.
Plain(h) == [h |-> h, n |-> 0]
Tree(n) == [h |-> NoHandler, n |-> n]

\* A registration that replaces the list instead of appending to it.
SecRawOverwrite(h) == rhndlrs' = <<h>> /\ UNCHANGED <<bghndlrs, hears, hndlrs, httpm, nodes>>

\* The bodies of the Add*Handler methods, each run between Lock and Unlock.
SecRaw(h) == rhndlrs' = Append(rhndlrs, h) /\ UNCHANGED <<bghndlrs, hears, hndlrs, httpm, nodes>>

SecBg(h) == bghndlrs' = Append(bghndlrs, h) /\ UNCHANGED <<rhndlrs, hears, hndlrs, httpm, nodes>>

SecHears(h) ==
  /\ hears' = [hears EXCEPT ![Pattern(h)] = Append(@, h)]
  /\ UNCHANGED <<rhndlrs, bghndlrs, hndlrs, httpm, nodes>>

\* `return mx.cmds.AddCommandHandler(h)`; ok is false when Describe panics.
SecCmd(c) ==
  LET ok == Describable(nodes, c)
      r == CxAddCommandHandler(nodes, cmds, c)
  IN  [ok |-> ok, nodes |-> IF ok THEN r.nodes ELSE nodes, sub |-> IF ok THEN r.ret ELSE 0]

\* mx.httpm.Handle(p, h) with p = /<mx.name>/<n>: http.ServeMux panics when
\* the path is bound already.
SecHTTP(h) ==
  LET ok == httpm[Name(h)] = NoHandler
  IN  [ok |-> ok, httpm |-> IF ok THEN [httpm EXCEPT ![Name(h)] = h] ELSE httpm]

\* mx.ServeHTTP for a request with the path /<mx.name>/<n>: the handler the
\* router forwards it to, NoHandler when the path is not bound (404).
ServeHTTP(n) == httpm[n]

\* The end of Add: `if !used` fails, otherwise h joins hndlrs.
SecFin(h, used) ==
  [ok |-> used, hndlrs |-> IF used THEN Append(hndlrs, h) ELSE hndlrs]

\* A registration method is called: mx.Lock().
AddRawHandler(p, h) ==
  /\ Ready(p) /\ Room
  /\ call' = [call EXCEPT ![p] = [NoCall EXCEPT !.op = "AddRaw", !.stage = "raw", !.h = h]]
  /\ Lock(p)
  /\ UNCHANGED <<regs, bgstarted>>

AddBackgroundHandler(p, h) ==
  /\ Ready(p) /\ Room
  /\ call' = [call EXCEPT ![p] = [NoCall EXCEPT !.op = "AddBg", !.stage = "bg", !.h = h]]
  /\ Lock(p)
  /\ UNCHANGED <<regs, bgstarted>>

AddHearsHandler(p, h) ==
  /\ Ready(p) /\ Room
  /\ call' = [call EXCEPT ![p] = [NoCall EXCEPT !.op = "AddHears", !.stage = "hears", !.h = h]]
  /\ Lock(p)
  /\ UNCHANGED <<regs, bgstarted>>

\* Mux.AddCommandHandler(h) with a plain command handler.
AddCommandHandler(p, h) ==
  /\ Ready(p) /\ Room
  /\ call' = [call EXCEPT ![p] = [NoCall EXCEPT !.op = "AddCmd", !.stage = "cmd", !.h = h]]
  /\ Lock(p)
  /\ UNCHANGED <<regs, bgstarted>>

\* Mux.AddCommandHandler(ccx) with a pre-built CommandMux.
AddCommandMux(p, n) ==
  /\ Ready(p) /\ n \in 2..Len(nodes)
  /\ call' = [call EXCEPT ![p] = [NoCall EXCEPT !.op = "AddCmd", !.stage = "cmd", !.cn = n]]
  /\ Lock(p)
  /\ UNCHANGED <<regs, bgstarted>>

AddHTTPHandler(p, h) ==
  /\ Ready(p) /\ Room
  /\ call' = [call EXCEPT ![p] = [NoCall EXCEPT !.op = "AddHTTP", !.stage = "http", !.h = h]]
  /\ Lock(p)
  /\ UNCHANGED <<regs, bgstarted>>

\* The capability probes of Add, in the order of the code.
StageOrder == <<"raw", "bg", "cmd", "hears", "http">>

\* The first probe after position i that h passes; "fin" after the last.
RECURSIVE StageFrom(_, _)
StageFrom(h, i) ==
  IF i > Len(StageOrder) THEN "fin"
  ELSE IF StageOrder[i] \in Caps(h) THEN StageOrder[i] ELSE StageFrom(h, i + 1)

StageIndex(s) == CHOOSE i \in 1..Len(StageOrder) : StageOrder[i] = s

\* Mux.Add(h) is called: the first Add*Handler it calls takes the lock, or
\* the final mx.Lock() when h passes no probe.
Add(p, h, G) ==
  /\ Ready(p) /\ Room
  /\ call' = [call EXCEPT ![p] = [NoCall EXCEPT !.op = "Add", !.h = h,
                !.stage = StageFrom(h, 1), !.used = StageFrom(h, 1) # "fin",
                !.beg = Found(G)]]
  /\ Lock(p)
  /\ UNCHANGED <<regs, bgstarted>>

\* Add goes on to its next probe, or to its final mx.Lock().
AddNext(p) ==
  /\ pc[p] = "a_next"
  /\ call' = [call EXCEPT ![p].stage = StageFrom(call[p].h, StageIndex(@) + 1)]
  /\ Lock(p)
  /\ UNCHANGED <<regs, bgstarted>>

\* A caller that waited for the writer side gets it.
AcquireW(p) ==
  /\ pc[p] = "w_lock" /\ wmutex = 0
  /\ wmutex' = p
  /\ pc' = [pc EXCEPT ![p] = "w_wait"]
  /\ UNCHANGED <<regs, readers, blocked, call, bgstarted>>

\* Where the caller goes after the section: Add has more to do, the
\* Add*Handler methods return.
After(f, failed) == IF f.op = "Add" /\ f.stage # "fin" /\ ~failed THEN "a_next" ELSE "idle"

Done(f, failed, ret, K) ==
  IF After(f, failed) = "idle" THEN Left([f EXCEPT !.ret = ret], K) ELSE f

\* The locked section of a registration: its body, then the deferred Unlock.
Section(p, K) ==
  /\ pc[p] = "w_wait" /\ Locked(p)
  /\ LET f == call[p]
         c == IF f.cn # 0 THEN Tree(f.cn) ELSE Plain(f.h)
     IN  CASE f.stage = "raw" ->
                /\ SecRaw(f.h)
                /\ call' = [call EXCEPT ![p] = Done(f, FALSE, "nil", K)]
                /\ Unlock(p, After(f, FALSE))
           [] f.stage = "bg" ->
                /\ SecBg(f.h)
                /\ call' = [call EXCEPT ![p] = Done(f, FALSE, "nil", K)]
                /\ Unlock(p, After(f, FALSE))
           [] f.stage = "hears" ->
                /\ SecHears(f.h)
                /\ call' = [call EXCEPT ![p] = Done(f, FALSE, "nil", K)]
                /\ Unlock(p, After(f, FALSE))
           [] f.stage = "cmd" ->
                /\ nodes' = SecCmd(c).nodes
                /\ UNCHANGED <<rhndlrs, bghndlrs, hears, hndlrs, httpm>>
                /\ call' = [call EXCEPT ![p] =
                     Done([f EXCEPT !.sub = SecCmd(c).sub], ~SecCmd(c).ok,
                          IF SecCmd(c).ok THEN "node" ELSE "panic", K)]
                /\ Unlock(p, After(f, ~SecCmd(c).ok))
           [] f.stage = "http" ->
                /\ httpm' = SecHTTP(f.h).httpm
                /\ UNCHANGED <<rhndlrs, bghndlrs, hears, hndlrs, nodes>>
                /\ call' = [call EXCEPT ![p] =
                     Done(f, ~SecHTTP(f.h).ok, IF SecHTTP(f.h).ok THEN "url" ELSE "panic", K)]
                /\ Unlock(p, After(f, ~SecHTTP(f.h).ok))
           [] f.stage = "fin" ->
                /\ hndlrs' = SecFin(f.h, f.used).hndlrs
                /\ UNCHANGED <<rhndlrs, bghndlrs, hears, httpm, nodes>>
                /\ call' = [call EXCEPT ![p] =
                     Left([f EXCEPT !.ret = IF SecFin(f.h, f.used).ok THEN "nil"
                                                  ELSE "unusable"], K)]
                /\ Unlock(p, "idle")
  /\ UNCHANGED bgstarted

\* NewCommandMux(base) called by a client: a pre-built sub-tree.
NewCx(p, base, K) ==
  /\ Ready(p) /\ Room
  /\ nodes' = Append(nodes, NewCommandMux(base))
  /\ call' = [call EXCEPT ![p] = Left([NoCall EXCEPT !.op = "NewCx", !.h = base,
                                         !.ret = "node", !.sub = Len(nodes) + 1], K)]
  /\ UNCHANGED <<rhndlrs, bghndlrs, hears, hndlrs, httpm, wmutex, readers, blocked,
                 pc, bgstarted>>

\* cx.AddCommandHandler(c) called by a client on a node it holds (one that
\* AddCommandHandler returned, NewCommandMux built or SubCommands exposed):
\* no lock is taken. The call is about to write cx.subCmds.
CxAdd(p, cx, c, K) ==
  /\ Ready(p) /\ cx \in 2..Len(nodes)
  /\ c.n = 0 => Room
  /\ c.n # 0 => c.n \in 2..Len(nodes)
  /\ call' = [call EXCEPT ![p] =
       IF Describable(nodes, c)
         THEN [NoCall EXCEPT !.op = "CxAdd", !.cx = cx, !.h = c.h, !.cn = c.n]
         ELSE Left([NoCall EXCEPT !.op = "CxAdd", !.cx = cx, !.h = c.h, !.cn = c.n,
                                  !.ret = "panic"], K)]
  /\ pc' = [pc EXCEPT ![p] = IF Describable(nodes, c) THEN "cx_write" ELSE "idle"]
  /\ UNCHANGED <<regs, wmutex, readers, blocked, bgstarted>>

\* The write of cx.subCmds[n] and the return of CommandMux.AddCommandHandler.
CxAddWrite(p, K) ==
  /\ pc[p] = "cx_write"
  /\ LET f == call[p]
         r == CxAddCommandHandler(nodes, f.cx, IF f.cn # 0 THEN Tree(f.cn) ELSE Plain(f.h))
     IN  /\ nodes' = r.nodes
         /\ call' = [call EXCEPT ![p] = Left([f EXCEPT !.ret = "node", !.sub = r.ret], K)]
  /\ pc' = [pc EXCEPT ![p] = "idle"]
  /\ UNCHANGED <<rhndlrs, bghndlrs, hears, hndlrs, httpm, wmutex, readers, blocked,
                 bgstarted>>

\* -------------------------------------------------------- StartBackground

RECURSIVE Count(_, _)
Count(seq, h) ==
  IF seq = <<>> THEN 0 ELSE (IF Head(seq) = h THEN 1 ELSE 0) + Count(Tail(seq), h)

\* mx.StartBackground(ctx, w) is called: RLock.
StartBackground(p) ==
  /\ Ready(p)
  /\ \A h \in Handlers : bgstarted[h] + Count(bghndlrs, h) <= MaxStart
  /\ call' = [call EXCEPT ![p] = [NoCall EXCEPT !.op = "StartBg"]]
  /\ RLock(p, "r_in")
  /\ UNCHANGED <<regs, bgstarted>>

\* `go RunBackgroundHandler(ctx, h, w)` for each background handler, then
\* the deferred RUnlock.
StartBackgroundRun(p, K) ==
  /\ pc[p] = "r_in" /\ call[p].op = "StartBg"
  /\ bgstarted' = [h \in Handlers |-> bgstarted[h] + Count(bghndlrs, h)]
  /\ call' = [call EXCEPT ![p] = Left([@ EXCEPT !.ret = "nil"], K)]
  /\ pc' = [pc EXCEPT ![p] = "idle"]
  /\ RUnlock(p)
  /\ UNCHANGED regs

\* ---------------------------------------------------------- specifications

\* NewMux: empty registries, and the command tree holding the help command.
InitOf(P) ==
  /\ rhndlrs = <<>>
  /\ bghndlrs = <<>>
  /\ hears = [r \in Patterns |-> <<>>]
  /\ hndlrs = <<>>
  /\ httpm = [n \in Names |-> NoHandler]
  /\ nodes = <<[NewCommandMux(NoHandler) EXCEPT !.subCmds["help"] = 2],
               NewCommandMux("help")>>
  /\ wmutex = 0
  /\ readers = {}
  /\ blocked = {}
  /\ pc = [p \in P |-> "idle"]
  /\ call = [p \in P |-> NoCall]
  /\ bgstarted = [h \in Handlers |-> 0]

CommandHandlers == {"ca", "cb"}

\* The nodes a client holds: those AddCommandHandler returned or
\* NewCommandMux built.
Held == 3..Len(nodes)

\* The dispatch of one caller: registration of raw, hears and command
\* handlers (at the root and nested), and Handle.
Init == InitOf({1})

Next ==
  \/ \E p \in DOMAIN pc : AddRawHandler(p, "r1")
  \/ \E p \in DOMAIN pc, h \in {"h1", "h2"} : AddHearsHandler(p, h)
  \/ \E p \in DOMAIN pc, h \in CommandHandlers : AddCommandHandler(p, h)
  \/ \E p \in DOMAIN pc, cx \in Held, h \in CommandHandlers : CxAdd(p, cx, Plain(h), TRUE)
  \/ \E p \in DOMAIN pc : CxAddWrite(p, TRUE)
  \/ \E p \in DOMAIN pc : Section(p, TRUE)
  \/ \E p \in DOMAIN pc, m \in Messages : HandleCall(p, m, TRUE)
  \/ \E p \in DOMAIN pc : HandleRaw(p)
  \/ \E p \in DOMAIN pc : CommandStep(p, CmdResults, Muts, TRUE)
  \/ \E p \in DOMAIN pc : HandleHears(p, Muts)
  \/ \E p \in DOMAIN pc : HandleFinish(p, TRUE)
  \/ \E p \in DOMAIN pc : RawRun(p, Muts)
  \/ \E p \in DOMAIN pc : Forget(p)

Spec == Init /\ [][Next]_vars

\* The command tree alone: one caller that builds sub-trees with
\* NewCommandMux, installs them at the root or under a node, registers nested
\* commands, and dispatches commands through Handle or at a node.
TreeMessages == {m \in Messages : m.ToBot /\ m.Text = "x"}

\* Where the node n is installed: the (parent, name) slots that hold it.
Slots(n) == {ks \in (1..Len(nodes)) \X Names : nodes[ks[1]].subCmds[ks[2]] = n}

\* The pre-built sub-trees the caller has not installed yet.
Loose == {n \in Held : Slots(n) = {}}

TreeNext ==
  \/ \E p \in DOMAIN pc, h \in CommandHandlers : AddCommandHandler(p, h)
  \/ \E p \in DOMAIN pc, n \in Loose : AddCommandMux(p, n)
  \/ \E p \in DOMAIN pc, b \in CommandHandlers \cup {NoHandler} : NewCx(p, b, TRUE)
  \/ \E p \in DOMAIN pc, cx \in Held, h \in CommandHandlers : CxAdd(p, cx, Plain(h), TRUE)
  \/ \E p \in DOMAIN pc, cx \in Held, n \in Loose : CxAdd(p, cx, Tree(n), TRUE)
  \/ \E p \in DOMAIN pc : CxAddWrite(p, TRUE)
  \/ \E p \in DOMAIN pc : Section(p, TRUE)
  \/ \E p \in DOMAIN pc, m \in TreeMessages : HandleCall(p, m, TRUE)
  \/ \E p \in DOMAIN pc : HandleRaw(p)
  \/ \E p \in DOMAIN pc, cx \in Held, m \in TreeMessages : CommandCall(p, cx, m)
  \/ \E p \in DOMAIN pc : CommandStep(p, CmdResults, {"none", "args"}, TRUE)
  \/ \E p \in DOMAIN pc : HandleFinish(p, TRUE)
  \/ \E p \in DOMAIN pc : Forget(p)

TreeSpec == Init /\ [][TreeNext]_vars

\* Concurrent callers of one Mux: every registration method, StartBackground
\* and Handle, with handlers that return.
ConcProcs == {1, 2, 3}

ConcInit == InitOf(ConcProcs)

LiveMessages == {m \in Messages : m.Text = "x" /\ m.args = <<"a">>}

\* A call of p that is under way goes on.
Proceed(p) ==
  \/ Section(p, FALSE)
  \/ AddNext(p)
  \/ StartBackgroundRun(p, FALSE)
  \/ HandleRaw(p)
  \/ CommandStep(p, {Nil, ErrSkipHears}, {"none"}, FALSE)
  \/ HandleHears(p, {"none"})
  \/ HandleFinish(p, FALSE)

\* Who calls what: callers 1 and 2 dispatch messages; caller 1 also starts
\* the background handlers, caller 2 also registers through Add, caller 3
\* registers through the Add*Handler methods.
Dispatchers == {1, 2}
Starters == {1}
Adders == {2}
Registrars == {3}

LiveNext ==
  \/ \E p \in Registrars : AddRawHandler(p, "r1")
  \/ \E p \in Registrars : AddBackgroundHandler(p, "bg1")
  \/ \E p \in Registrars : AddHearsHandler(p, "h2")
  \/ \E p \in Registrars : AddCommandHandler(p, "ca")
  \/ \E p \in Registrars : AddHTTPHandler(p, "web")
  \/ \E p \in Adders, h \in {"multi", "dud"} : Add(p, h, FALSE)
  \/ \E p \in DOMAIN pc : AddNext(p)
  \/ \E p \in DOMAIN pc : AcquireW(p)
  \/ \E p \in DOMAIN pc : Section(p, FALSE)
  \/ \E p \in Starters : StartBackground(p)
  \/ \E p \in DOMAIN pc : StartBackgroundRun(p, FALSE)
  \/ \E p \in Dispatchers, m \in LiveMessages : HandleCall(p, m, FALSE)
  \/ \E p \in DOMAIN pc : HandleRaw(p)
  \/ \E p \in DOMAIN pc : CommandStep(p, {Nil, ErrSkipHears}, {"none"}, FALSE)
  \/ \E p \in DOMAIN pc : HandleHears(p, {"none"})
  \/ \E p \in DOMAIN pc : HandleFinish(p, FALSE)

\* The scheduler runs every caller that can take a step, and sync.Mutex
\* hands the writer side to a caller that keeps waiting for it.
LiveSpec ==
  /\ ConcInit /\ [][LiveNext]_vars
  /\ \A p \in ConcProcs : WF_vars(Proceed(p)) /\ SF_vars(AcquireW(p))

\* The same callers and calls, with every Handle call followed from the
\* registries it found when it was called.
ConcNext ==
  \/ \E p \in Registrars : AddRawHandler(p, "r1")
  \/ \E p \in Registrars : AddBackgroundHandler(p, "bg1")
  \/ \E p \in Registrars : AddHearsHandler(p, "h2")
  \/ \E p \in Registrars : AddCommandHandler(p, "ca")
  \/ \E p \in Registrars : AddHTTPHandler(p, "web")
  \/ \E p \in Adders, h \in {"multi", "dud"} : Add(p, h, FALSE)
  \/ \E p \in DOMAIN pc : AddNext(p)
  \/ \E p \in DOMAIN pc : AcquireW(p)
  \/ \E p \in DOMAIN pc : Section(p, FALSE)
  \/ \E p \in Starters : StartBackground(p)
  \/ \E p \in DOMAIN pc : StartBackgroundRun(p, FALSE)
  \/ \E p \in Dispatchers, m \in LiveMessages : HandleCall(p, m, TRUE)
  \/ \E p \in DOMAIN pc : HandleRaw(p)
  \/ \E p \in DOMAIN pc : CommandStep(p, {Nil, ErrSkipHears}, {"none"}, FALSE)
  \/ \E p \in DOMAIN pc : HandleHears(p, {"none"})
  \/ \E p \in DOMAIN pc : HandleFinish(p, FALSE)

ConcSpec == ConcInit /\ [][ConcNext]_vars

\* Registration through Add by one caller, next to AddRawHandler and
\* AddHTTPHandler, with every Add call followed from the registries it found.
AddNext1 ==
  \/ \E p \in DOMAIN pc, h \in {"full", "multi", "web", "bg1", "dud"} : Add(p, h, TRUE)
  \/ \E p \in DOMAIN pc : AddNext(p)
  \/ \E p \in DOMAIN pc : Section(p, TRUE)
  \/ \E p \in DOMAIN pc : AddRawHandler(p, "r1")
  \/ \E p \in DOMAIN pc : AddHTTPHandler(p, "web")
  \/ \E p \in DOMAIN pc : Forget(p)

AddSpec == Init /\ [][AddNext1]_vars

\* One caller whose calls return, and the raw tasks its Handle calls started,
\* which run at any time, after Handle returned, or never.
RawMessages == {m \in Messages : m.Text = "x" /\ m.args \in {<<>>, <<"a">>}}

RawCallers == {1}

RawProceed(p) ==
  \/ Section(p, TRUE)
  \/ HandleRaw(p)
  \/ CommandStep(p, {Nil, ErrSkipHears, ErrOther}, {"none", "text"}, TRUE)
  \/ HandleHears(p, {"none", "text"})
  \/ HandleFinish(p, TRUE)

RawNext ==
  \/ \E p \in DOMAIN pc : AddRawHandler(p, "r1")
  \/ \E p \in DOMAIN pc : AddHearsHandler(p, "h1")
  \/ \E p \in DOMAIN pc : AddCommandHandler(p, "ca")
  \/ \E p \in DOMAIN pc : Section(p, TRUE)
  \/ \E p \in DOMAIN pc, m \in RawMessages : HandleCall(p, m, FALSE)
  \/ \E p \in DOMAIN pc : HandleRaw(p)
  \/ \E p \in DOMAIN pc :
       CommandStep(p, {Nil, ErrSkipHears, ErrOther}, {"none", "text"}, TRUE)
  \/ \E p \in DOMAIN pc : HandleHears(p, {"none", "text"})
  \/ \E p \in DOMAIN pc : HandleFinish(p, TRUE)
  \/ \E p \in DOMAIN pc : RawRun(p, {"none", "text"})
  \/ \E p \in DOMAIN pc : Forget(p)

\* The scheduler runs the caller; nothing makes a raw task run or end.
RawSpec == Init /\ [][RawNext]_vars /\ \A p \in RawCallers : WF_vars(RawProceed(p))

\* Two callers of one Mux that register commands at the root and, through the
\* nodes AddCommandHandler returned, beneath them, while they dispatch
\* commands through Handle.
RaceProcs == {1, 2}

RaceInit == InitOf(RaceProcs)

RaceMessages == {m \in Messages : m.ToBot /\ m.Text = "x" /\ m.args # <<>>}

RaceNext ==
  \/ \E p \in DOMAIN pc, h \in CommandHandlers : AddCommandHandler(p, h)
  \/ \E p \in DOMAIN pc : AcquireW(p)
  \/ \E p \in DOMAIN pc : Section(p, FALSE)
  \/ \E p \in DOMAIN pc, cx \in Held, h \in CommandHandlers : CxAdd(p, cx, Plain(h), FALSE)
  \/ \E p \in DOMAIN pc : CxAddWrite(p, FALSE)
  \/ \E p \in DOMAIN pc, m \in RaceMessages : HandleCall(p, m, TRUE)
  \/ \E p \in DOMAIN pc : HandleRaw(p)
  \/ \E p \in DOMAIN pc : CommandStep(p, {Nil, ErrNextCommand}, {"none"}, FALSE)
  \/ \E p \in DOMAIN pc : HandleFinish(p, FALSE)

RaceSpec == RaceInit /\ [][RaceNext]_vars

\* A handler that Handle runs synchronously calls a registration method of
\* the same Mux: a hears handler calls mx.AddHearsHandler(h), a command
\* handler calls mx.AddCommandHandler(h). The call is made by the goroutine
\* that holds the read lock of Handle.
HandlerRuns(f, st) ==
  IF st = "hears"
    THEN f.hq # <<>> /\ Matches(Pattern(Head(f.hq)), f.m.Text)
    ELSE f.node # 0 /\ nodes[f.node].base # NoHandler

Back(st) == IF st = "hears" THEN "h_hears" ELSE "h_cmd"

HandlerAdds(p, h, st) ==
  /\ call[p].op = "Handle" /\ pc[p] = Back(st) /\ call[p].stage = "none"
  /\ HandlerRuns(call[p], st) /\ Room
  /\ call' = [call EXCEPT ![p] = [@ EXCEPT !.stage = st, !.h = h]]
  /\ Lock(p)
  /\ UNCHANGED <<regs, bgstarted>>

\* The locked body of the method the handler called, and its return into the
\* handler.
HandlerSection(p) ==
  /\ pc[p] = "w_wait" /\ Locked(p)
  /\ LET f == call[p]
     IN  /\ IF f.stage = "hears"
              THEN SecHears(f.h)
              ELSE /\ nodes' = SecCmd(Plain(f.h)).nodes
                   /\ UNCHANGED <<rhndlrs, bghndlrs, hears, hndlrs, httpm>>
         /\ call' = [call EXCEPT ![p] = [f EXCEPT !.stage = "done", !.h = NoHandler]]
         /\ Unlock(p, Back(f.stage))
  /\ UNCHANGED bgstarted

\* The locked body of a registration method, whoever called the method.
AnySection(p) ==
  IF call[p].op = "Handle" THEN HandlerSection(p) ELSE Section(p, FALSE)

ReentProcs == {1, 2}

ReentInit == InitOf(ReentProcs)

ReentMessages == {m \in Messages : m.Text = "x" /\ m.args \in {<<>>, <<"a">>}}

ReentNext ==
  \/ \E p \in DOMAIN pc : AddHearsHandler(p, "h1")
  \/ \E p \in DOMAIN pc : AddCommandHandler(p, "ca")
  \/ \E p \in DOMAIN pc : AcquireW(p)
  \/ \E p \in DOMAIN pc : AnySection(p)
  \/ \E p \in DOMAIN pc, m \in ReentMessages : HandleCall(p, m, FALSE)
  \/ \E p \in DOMAIN pc : HandleRaw(p)
  \/ \E p \in DOMAIN pc : CommandStep(p, {Nil, ErrOther}, {"none"}, FALSE)
  \/ \E p \in DOMAIN pc : HandleHears(p, {"none"})
  \/ \E p \in DOMAIN pc : HandleFinish(p, FALSE)
  \/ \E p \in DOMAIN pc : HandlerAdds(p, "h2", "hears")
  \/ \E p \in DOMAIN pc : HandlerAdds(p, "cb", "cmd")

ReentSpec == ReentInit /\ [][ReentNext]_vars

\* ------------------------------------------------------------- properties

\* A Handle call of p has returned.
Returned(p) == call[p].op = "Handle" /\ pc[p] = "idle" /\ call[p].ret # "none"

\* Some hears handler of the call reported handled.
AnyHandled(f) == \E i \in 1..Len(f.hearLog) : f.hearLog[i].handled

\* The command dispatch of the call returned an error that is not skip-hears.
CommandFailed(f) == f.cmdRes \notin {"none", Nil, ErrSkipHears}

\* How often the hears handler h was invoked in the call.
Heard(f, h) == Cardinality({i \in 1..Len(f.hearLog) : f.hearLog[i].h = h})

\* The caller's message as command dispatch left it.
AfterCommands(f) == IF f.cmdLog = <<>> THEN f.orig ELSE f.cmdLog[Len(f.cmdLog)].after

C2_SkipHears ==
  \A p \in DOMAIN pc :
    call[p].cmdRes = ErrSkipHears =>
      /\ call[p].hearLog = <<>> /\ call[p].hq = <<>>
      /\ call[p].w = <<>>
      /\ Returned(p) /\ call[p].ret = Nil

C2_Witness ==
  \E p \in DOMAIN pc :
    /\ Returned(p) /\ call[p].cmdRes = ErrSkipHears
    /\ \E r \in Patterns : hears[r] # <<>> /\ Matches(r, call[p].m.Text)

\* C3: a Handle call on a message with ToBot = false runs neither the
\* command tree's entry point nor any node's base handler.
C3_NotToBot ==
  \A p \in DOMAIN pc :
    call[p].op = "Handle" /\ ~call[p].orig.ToBot =>
      call[p].cmdLog = <<>> /\ call[p].cmdRes = "none" /\ pc[p] # "h_cmd"

C3_Witness ==
  \E p \in DOMAIN pc :
    /\ Returned(p) /\ ~call[p].orig.ToBot
    /\ call[p].orig.args # <<>>
    /\ Lookup(nodes[cmds].subCmds, call[p].orig.args[1]) # 0

Registered(h) == Count(hears[Pattern(h)], h)

\* The hears dispatch of the call is over.
HearsDone(p) == Returned(p) /\ call[p].cmdRes # ErrSkipHears

\* C5 as claimed: in a Handle call that reaches hears dispatch, a registered
\* hears handler whose pattern matches the message text is invoked exactly
\* once and one whose pattern does not match is not invoked; every
\* invocation sees the message untouched by the other hears handlers.
C5_AsClaimed ==
  \A p \in DOMAIN pc :
    LET f == call[p]
    IN  /\ \A i \in 1..Len(f.hearLog) : f.hearLog[i].seen = AfterCommands(f)
        /\ HearsDone(p) =>
             \A h \in Handlers :
               Heard(f, h) = IF Registered(h) > 0 /\ Matches(Pattern(h), f.m.Text)
                               THEN 1 ELSE 0

\* C5 as amended: a hears handler whose pattern matches is invoked once for
\* each time it was registered (a handler registered twice is invoked
\* twice), one whose pattern does not match is not invoked, and every
\* invocation sees the message untouched by the other hears handlers.
C5_HearsOncePerRegistration ==
  \A p \in DOMAIN pc :
    LET f == call[p]
    IN  /\ \A i \in 1..Len(f.hearLog) : f.hearLog[i].seen = AfterCommands(f)
        /\ HearsDone(p) =>
             \A h \in Handlers :
               Heard(f, h) = IF Matches(Pattern(h), f.m.Text) THEN Registered(h) ELSE 0

C5_Witness ==
  \E p \in DOMAIN pc :
    LET f == call[p]
    IN  /\ HearsDone(p) /\ Len(f.hearLog) = 2
        /\ f.hearLog[1].h # f.hearLog[2].h
        /\ f.hearLog[1].mu = "text"
        /\ f.hearLog[2].seen = f.m

\* C6: Handle returns nil whatever the handlers did: a handler's error, a
\* routing error or a sentinel never reaches the caller; and after a command
\* error the hears handlers are still run.
C6_ReturnsNil ==
  \A p \in DOMAIN pc :
    LET f == call[p]
    IN  /\ Returned(p) => f.ret = Nil
        /\ Returned(p) /\ CommandFailed(f) =>
             \A h \in Handlers :
               Matches(Pattern(h), f.m.Text) => Heard(f, h) = Registered(h)

C6_Witness ==
  \E p \in DOMAIN pc :
    /\ Returned(p) /\ call[p].cmdRes = ErrUnknownCommand
    /\ call[p].hearLog # <<>>

\* The base handler of the logged step e deferred, or the node had none.
Deferred(e) == e.res = ErrNextCommand

\* C7: command dispatch goes down one path: a node passes the message on
\* only when its base handler is absent or deferred, and then to the child
\* named by args[0] and to no other node; it fails with missing sub-command
\* when args is empty and with unknown command when args[0] names no child;
\* any other result of a base handler is the result of the dispatch.
C7_Routing ==
  \A p \in DOMAIN pc :
    LET f == call[p]
        n == Len(f.cmdLog)
    IN  f.op = "Handle" =>
          /\ \A i \in 1..n :
               /\ f.cmdLog[i].base = nodes[f.cmdLog[i].node].base
               /\ (f.cmdLog[i].base = NoHandler) => Deferred(f.cmdLog[i])
               /\ i = 1 => f.cmdLog[i].node = cmds
               /\ i > 1 =>
                    /\ Deferred(f.cmdLog[i - 1])
                    /\ f.cmdLog[i - 1].after.args # <<>>
                    /\ f.cmdLog[i].node =
                         Lookup(nodes[f.cmdLog[i - 1].node].subCmds,
                                f.cmdLog[i - 1].after.args[1])
                    /\ f.cmdLog[i].seen = f.cmdLog[i - 1].after
          /\ (pc[p] = "h_cmd" /\ n > 0) =>
               /\ Deferred(f.cmdLog[n]) /\ f.cmdLog[n].after.args # <<>>
               /\ f.node # 0
               /\ f.node = Lookup(nodes[f.cmdLog[n].node].subCmds, f.cmdLog[n].after.args[1])
          /\ f.cmdRes # "none" =>
               /\ n > 0
               /\ f.cmdRes =
                    IF ~Deferred(f.cmdLog[n]) THEN f.cmdLog[n].res
                    ELSE IF f.cmdLog[n].after.args = <<>> THEN ErrMissing
                    ELSE ErrUnknownCommand
               /\ (Deferred(f.cmdLog[n]) /\ f.cmdLog[n].after.args # <<>>) =>
                    Lookup(nodes[f.cmdLog[n].node].subCmds, f.cmdLog[n].after.args[1]) = 0

C7_Witness ==
  \E p \in DOMAIN pc :
    LET f == call[p]
    IN  /\ Returned(p) /\ Len(f.cmdLog) = 2
        /\ f.cmdLog[2].base = "ca" /\ f.cmdLog[2].res = Nil
        /\ nodes[cmds].subCmds["a"] # 0 /\ nodes[cmds].subCmds["b"] # 0

\* C8: AddCommandHandler, on the Mux or on a node, returns the node it
\* installed under the handler's name, for a plain command handler and for a
\* pre-built CommandMux alike; what it returns is never nil.
C8_ReturnsInstalled ==
  \A p \in DOMAIN pc :
    LET f == call[p]
        parent == IF f.op = "AddCmd" THEN cmds ELSE f.cx
        c == IF f.cn # 0 THEN Tree(f.cn) ELSE Plain(f.h)
    IN  (f.op \in {"AddCmd", "CxAdd"} /\ f.ret = "node") =>
          /\ f.sub # 0
          /\ f.sub = nodes[parent].subCmds[Describe(nodes, c)]

\* C9: the writes of a node's subCmds are serialized with dispatch by the
\* exclusive lock of the Mux, nested registrations through a returned node
\* included: no Handle call is at a node, running its Command and about to
\* read its subCmds, while a registration call is writing the subCmds of
\* that node.
C9_NoReadDuringWrite ==
  \A p \in DOMAIN pc :
    pc[p] = "cx_write" =>
      \A q \in DOMAIN pc :
        ~(call[q].op = "Handle" /\ pc[q] = "h_cmd" /\ call[q].node = call[p].cx)

\* C10: concurrent calls never deadlock. Every caller is between calls again
\* and again: whatever call it has under way (a Handle, a StartBackground or
\* a registration, whatever the other callers do) returns in the end, given
\* handlers that return; and a Handle or StartBackground call waits for the
\* read lock only while a registration owns the writer side of the lock,
\* never for another reader.
C10_NoDeadlock ==
  /\ \A p \in ConcProcs : []<>(pc[p] = "idle")
  /\ [](\A p \in ConcProcs : pc[p] = "r_wait" => (wmutex # 0 /\ pc[wmutex] = "w_wait"))

C10_Witness ==
  \E p, q, r \in ConcProcs :
    /\ call[p].op = "Handle" /\ p \in readers /\ pc[p] = "h_hears"
    /\ call[q].op = "Handle" /\ pc[q] = "r_wait"
    /\ pc[r] = "w_wait"

\* s is the beginning of t.
IsPrefix(s, t) == Len(s) <= Len(t) /\ SubSeq(t, 1, Len(s)) = s

\* The handlers of the raw tasks a call started, in order.
TaskHandlers(f) == [i \in 1..Len(f.tasks) |-> f.tasks[i].h]

\* C11: no registration is lost. Whatever was registered when a Handle call
\* was made is there for the call while it holds the read lock, whatever the
\* other callers do: the raw list and every hears list still begin with what
\* they held, and every command name still has a node; the call starts a
\* task for every one of those raw handlers, tries every one of those hears
\* handlers against the message, and does not fail with unknown command at
\* the root for a name that was registered.
C11_NoLostRegistration ==
  \A p \in DOMAIN pc :
    LET f == call[p]
    IN  (f.op = "Handle" /\ p \in readers) =>
          /\ IsPrefix(f.beg.raw, rhndlrs)
          /\ \A r \in Patterns : IsPrefix(f.beg.hears[r], hears[r])
          /\ \A n \in Names :
               f.beg.nodes[cmds].subCmds[n] # 0 => nodes[cmds].subCmds[n] # 0
          /\ pc[p] # "r_in" => IsPrefix(f.beg.raw, TaskHandlers(f))
          /\ pc[p] = "h_hears" =>
               \A h \in Handlers :
                 Matches(Pattern(h), f.m.Text) =>
                   Heard(f, h) + Count(f.hq, h) >= Count(f.beg.hears[Pattern(h)], h)
          /\ (f.cmdRes = ErrUnknownCommand /\ Len(f.cmdLog) = 1) =>
               f.beg.nodes[cmds].subCmds[f.cmdLog[1].after.args[1]] = 0

\* A call that waited for the read lock behind a registration, began with a
\* raw and a hears handler registered, and has tried the hears handler.
C11_Witness ==
  \E p \in DOMAIN pc :
    LET f == call[p]
    IN  /\ f.op = "Handle" /\ pc[p] = "h_hears" /\ f.hq = <<>>
        /\ f.beg.raw # <<>> /\ Len(rhndlrs) > Len(f.beg.raw)
        /\ \E r \in Patterns : f.beg.hears[r] # <<>>
        /\ f.hearLog # <<>>

\* l with h appended where the handler has the capability c.
With(l, h, c) == IF c \in Caps(h) THEN Append(l, h) ELSE l

\* An Add call of p has returned or panicked.
AddOver(p) == call[p].op = "Add" /\ pc[p] = "idle" /\ call[p].ret # "none"

\* C12: Add(h) succeeds exactly when h has one of the five capabilities; then
\* h is in every registry whose capability it has (appended to the raw,
\* background and hears lists, installed under its name in the command tree
\* and in the HTTP router) and appended once to hndlrs; otherwise the
\* registries, the command tree, the router and hndlrs are as they were.
C12_AddAllOrNothing ==
  \A p \in DOMAIN pc :
    LET f == call[p]
        h == f.h
        b == f.beg
    IN  AddOver(p) =>
          /\ (f.ret = "nil") <=> (Caps(h) # {})
          /\ f.ret = "nil" =>
               /\ rhndlrs = With(b.raw, h, "raw")
               /\ bghndlrs = With(b.bg, h, "bg")
               /\ hears = [b.hears EXCEPT ![Pattern(h)] = With(@, h, "hears")]
               /\ nodes = IF "cmd" \in Caps(h)
                            THEN CxAddCommandHandler(b.nodes, cmds, Plain(h)).nodes
                            ELSE b.nodes
               /\ httpm = IF "http" \in Caps(h) THEN [b.http EXCEPT ![Name(h)] = h]
                                                 ELSE b.http
               /\ hndlrs = Append(b.all, h)
          /\ f.ret # "nil" => Registries = b

\* C13: over any sequence of AddBackgroundHandler and StartBackground calls
\* no background handler is started more than once: not even a handler that
\* was registered a single time.
C13_StartedOnce == \A h \in Handlers : Count(bghndlrs, h) <= 1 => bgstarted[h] <= 1

\* C14: AddHTTPHandler(h) returns the path /<mux>/<name of h> and binds h
\* there: a request with that path reaches h and a request with another
\* path does not.
C14_HTTPRouting ==
  \A p \in DOMAIN pc :
    LET f == call[p]
    IN  (f.op = "AddHTTP" /\ pc[p] = "idle" /\ f.ret # "none") =>
          /\ f.ret = "url"
          /\ ServeHTTP(Name(f.h)) = f.h
          /\ \A n \in Names \ {Name(f.h)} : ServeHTTP(n) # f.h

\* The raw loop of the Handle call of p is over.
RawStarted(p) == call[p].op = "Handle" /\ pc[p] \notin {"r_wait", "r_in"}

\* How many tasks the call started for the raw handler h.
Tasks(f, h) == Cardinality({i \in 1..Len(f.tasks) : f.tasks[i].h = h})

\* C15 as claimed: every Handle call starts exactly one task for each
\* registered raw handler and none for another, whatever the message and the
\* result of command dispatch; each task gets a copy of the message as it was
\* passed to Handle.
C15_AsClaimed ==
  \A p \in DOMAIN pc :
    LET f == call[p]
    IN  RawStarted(p) =>
          /\ \A h \in Handlers : Tasks(f, h) = IF Count(rhndlrs, h) > 0 THEN 1 ELSE 0
          /\ \A i \in 1..Len(f.tasks) : f.tasks[i].seen = f.orig

\* C15 as amended: every Handle call starts one task for each entry of the
\* raw list, in order (two for a handler that was registered twice),
\* whatever the message and the result of command dispatch; each task gets
\* its own copy of the message as it was passed to Handle, which neither the
\* command handlers nor the other tasks change.
C15_OneTaskPerRegistration ==
  \A p \in DOMAIN pc :
    LET f == call[p]
    IN  RawStarted(p) =>
          /\ TaskHandlers(f) = rhndlrs
          /\ \A h \in Handlers : Tasks(f, h) = Count(rhndlrs, h)
          /\ \A i \in 1..Len(f.tasks) :
               /\ f.tasks[i].seen = f.orig
               /\ ~f.tasks[i].ran => f.tasks[i].mc = f.orig

C15_Witness ==
  \E p \in DOMAIN pc :
    LET f == call[p]
    IN  /\ Returned(p) /\ f.cmdRes = ErrSkipHears /\ f.m # f.orig
        /\ f.orig.ToBot /\ Len(f.tasks) = 1
        /\ ~f.tasks[1].ran /\ f.tasks[1].mc = f.orig

\* A raw task of the Handle call of p takes its step.
RawStep(p) ==
  /\ call[p].op = "Handle" /\ call'[p].op = "Handle"
  /\ \E i \in 1..Len(call[p].tasks) : ~call[p].tasks[i].ran /\ call'[p].tasks[i].ran

\* C16: Handle does not wait for the raw handlers. Every call of the caller
\* returns (the caller is between calls again and again) though no raw task
\* need ever run or end, and a caller between calls does not hold the read
\* lock; and a raw task's step changes neither where the call is, what it
\* holds of the lock, its message and err, what it wrote, nor its result.
C16_NoWaitForRaw ==
  /\ \A p \in RawCallers : []<>(pc[p] = "idle")
  /\ [](\A p \in RawCallers : pc[p] = "idle" => p \notin readers)
  /\ [][\A p \in RawCallers :
         RawStep(p) =>
           /\ pc' = pc /\ readers' = readers
           /\ call'[p].m = call[p].m /\ call'[p].err = call[p].err
           /\ call'[p].w = call[p].w /\ call'[p].ret = call[p].ret]_vars

\* A Handle call that has returned with its error line written and the lock
\* released, while the raw task it started has not run.
C16_Witness ==
  \E p \in DOMAIN pc :
    /\ Returned(p) /\ p \notin readers
    /\ Len(call[p].w) = 1 /\ call[p].hearLog # <<>>
    /\ call[p].tasks # <<>> /\ ~call[p].tasks[1].ran

\* The callers inside a read-locked section of Handle or StartBackground.
Reading == {p \in DOMAIN pc : pc[p] \in {"r_in", "h_cmd", "h_hears"}}

\* The callers inside the locked body of a registration method.
Writing == {p \in DOMAIN pc : pc[p] = "w_wait" /\ wmutex = p /\ readers = {}}

\* C17: registry writes are mutually exclusive with dispatch. The callers
\* inside a read-locked section are exactly the holders of the read lock; a
\* step that changes a registry is taken by the one caller that holds the
\* write lock for a registration method, while no Handle or StartBackground
\* call is inside its read-locked section; at most one caller is inside a
\* locked registration body, and then none is inside a read-locked section.
C17_WritesExcludeDispatch ==
  /\ [](Reading = readers)
  /\ [](Cardinality(Writing) <= 1 /\ (Writing # {} => Reading = {}))
  /\ [][regs' # regs =>
         /\ Reading = {}
         /\ Writing # {}
         /\ \A p \in Writing : call[p].op \in RegOps
         /\ \A q \in DOMAIN pc \ Writing : call'[q] = call[q]]_vars

\* A Handle call is in its hears loop, one registration owns the writer side
\* and waits for that call to leave, and a second registration waits for the
\* first.
C17_Witness ==
  \E p, q, r \in DOMAIN pc :
    /\ call[q].op = "Handle" /\ pc[q] = "h_hears" /\ q \in readers
    /\ pc[p] = "w_wait" /\ wmutex = p /\ call[p].op \in RegOps
    /\ pc[r] = "w_lock" /\ call[r].op \in RegOps

\* A handler of the Handle call of p has called a registration method that
\* has not returned.
HandlerWaits(p) == call[p].op = "Handle" /\ pc[p] \in {"w_lock", "w_wait"}

\* C18: a registration method called by a command or hears handler inside
\* Handle returns and the Handle call completes, Handle does not block itself
\* through its own read lock: while the handler's call is under way, some
\* caller can take a step.
C18_HandlerAddReturns ==
  \A p \in DOMAIN pc : HandlerWaits(p) => ENABLED ReentNext

\* The handler h is in the registry of the capability c.
In(c, h) ==
  CASE c = "raw"   -> Count(rhndlrs, h) > 0
    [] c = "bg"    -> Count(bghndlrs, h) > 0
    [] c = "hears" -> Count(hears[Pattern(h)], h) > 0
    [] c = "cmd"   -> nodes[cmds].subCmds[Name(h)] # 0
    [] c = "http"  -> httpm[Name(h)] = h

\* C19: Add(h) is atomic towards dispatch. While a Handle call is inside its
\* read-locked section, past its raw loop, and an Add(h) call is under way, h
\* is in all of the registries it belongs in or in none of them: the call
\* does not run h as a raw handler and miss it as a hears handler.
C19_AddAtomic ==
  \A q \in readers, p \in DOMAIN pc :
    (/\ call[q].op = "Handle" /\ pc[q] \in {"h_cmd", "h_hears"}
     /\ call[p].op = "Add" /\ pc[p] # "idle") =>
      \A c, d \in Caps(call[p].h) : In(c, call[p].h) => In(d, call[p].h)

\* C20: command dispatch started at any node terminates and visits no node
\* twice: in every dispatch, through Handle or started by a client at a node
\* it holds, the nodes whose Command ran are all different.
C20_NoNodeTwice ==
  \A p \in DOMAIN pc :
    \A i, j \in 1..Len(call[p].cmdLog) :
      i # j => call[p].cmdLog[i].node # call[p].cmdLog[j].node

====
